---- MODULE Spec2Model ----
(***************************************************************************)
(* Model of pyiron_atomistics/interactive/quasi_newton.py:                 *)
(* the QuasiNewtonInteractive engine (approximate Hessian, its cached      *)
(* eigendecomposition, the SR / PSB / BFGS updates and the proposed step)  *)
(* used directly or through the run_qn driver loop.                        *)
(*                                                                         *)
(* Numbers are exact rationals <<n, d>> (d > 0, lowest terms).  A division *)
(* by zero gives the non-finite value NaN, which absorbs every later       *)
(* operation, as numpy's inf/nan do.                                       *)
(* Arrays are records [shape, data]: data is a sequence of numbers for a   *)
(* 1-D array and a sequence of rows for a 2-D array.                       *)
(***************************************************************************)
EXTENDS Integers, Sequences, FiniteSets, TLC

\* ---------------------------------------------------------------- bounds
NAtoms == 1
MaxCalls == 3
MaxAssign == 1
MaxNum == 30000
MaxIonicSteps == 3
MaxHessianAtoms == 2
MaxHessianCalls == 3

Dim == 3 * NAtoms

None == "None"

\* ------------------------------------------------------- exact arithmetic
\* <<1, 0>> is the non-finite value; <<0, 0>> marks a number outside the
\* range of the model (numerator or denominator above MaxNum).  Both absorb.
NaN == <<1, 0>>
OutOfRange == <<0, 0>>

IAbs(i) == IF i < 0 THEN -i ELSE i

RECURSIVE Gcd(_, _)
Gcd(a, b) == IF b = 0 THEN a ELSE IF b = 1 THEN 1 ELSE Gcd(b, a % b)

Fit(n, d) == IF IAbs(n) > MaxNum \/ d > MaxNum THEN OutOfRange ELSE <<n, d>>

Norm(n, d) ==
    IF d = 0 THEN NaN
    ELSE LET g == Gcd(IAbs(n), IAbs(d))
             s == IF d < 0 THEN -1 ELSE 1
         IN  Fit(s * (n \div g), s * (d \div g))

R(i) == <<i, 1>>
Q(n, d) == Norm(n, d)
Zero == R(0)
One == R(1)

Special(a) == a[2] = 0
Absorb(a, b) == IF a = OutOfRange \/ b = OutOfRange THEN OutOfRange ELSE NaN

RMul(a, b) ==
    IF Special(a) \/ Special(b) THEN Absorb(a, b)
    ELSE IF a[1] = 0 \/ b[1] = 0 THEN Zero
    ELSE IF a[2] = 1 /\ b[2] = 1 THEN Fit(a[1] * b[1], 1)
    ELSE LET g1 == Gcd(IAbs(a[1]), b[2])
             g2 == Gcd(IAbs(b[1]), a[2])
         IN  Fit((a[1] \div g1) * (b[1] \div g2), (a[2] \div g2) * (b[2] \div g1))

RAdd(a, b) ==
    IF Special(a) \/ Special(b) THEN Absorb(a, b)
    ELSE IF a[1] = 0 THEN b
    ELSE IF b[1] = 0 THEN a
    ELSE IF a[2] = 1 /\ b[2] = 1 THEN Fit(a[1] + b[1], 1)
    ELSE LET g == Gcd(a[2], b[2])
         IN  Norm(a[1] * (b[2] \div g) + b[1] * (a[2] \div g), (a[2] \div g) * b[2])

RNeg(a) == IF Special(a) THEN a ELSE <<-a[1], a[2]>>
RSub(a, b) == RAdd(a, RNeg(b))
RDiv(a, b) ==
    IF Special(a) \/ Special(b) THEN Absorb(a, b)
    ELSE IF b[1] = 0 THEN NaN
    ELSE RMul(a, IF b[1] < 0 THEN <<-b[2], -b[1]>> ELSE <<b[2], b[1]>>)
RAbs(a) == IF Special(a) THEN a ELSE <<IAbs(a[1]), a[2]>>
\* a comparison with a non-finite operand is false, as for IEEE nan
RLt(a, b) == ~Special(a) /\ ~Special(b) /\ a[1] * b[2] < b[1] * a[2]
RGt(a, b) == RLt(b, a)

RECURSIVE RSum(_)
RSum(s) == IF s = <<>> THEN Zero ELSE RAdd(s[1], RSum(Tail(s)))

\* the value f with every element worked out (a function is otherwise
\* worked out again at each application)
Eager(f) == IF f = f THEN f ELSE f

\* ------------------------------------------------------------- arrays
Arr1(xs) == [shape |-> <<Len(xs)>>, data |-> xs]
Arr2(rows) == [shape |-> <<Len(rows), Len(rows[1])>>, data |-> rows]

\* a 0-d array: what np.array makes of a scalar
Arr0(c) == [shape |-> <<>>, data |-> c]

\* np.prod(a.shape)
Size(a) ==
    IF Len(a.shape) = 0 THEN 1
    ELSE IF Len(a.shape) = 1 THEN a.shape[1] ELSE a.shape[1] * a.shape[2]

\* a.flatten(): the row-major list of the elements
Flatten(a) ==
    IF Len(a.shape) = 0 THEN <<a.data>>
    ELSE IF Len(a.shape) = 1 THEN a.data
    ELSE [k \in 1..Size(a) |->
            a.data[((k - 1) \div a.shape[2]) + 1][((k - 1) % a.shape[2]) + 1]]

\* the rows x cols array over a row-major list of rows*cols elements
Reshape(xs, rows, cols) ==
    [shape |-> <<rows, cols>>,
     data |-> [i \in 1..rows |-> [j \in 1..cols |-> xs[(i - 1) * cols + j]]]]

\* int(np.sqrt(m))
RECURSIVE ISqrtFrom(_, _)
ISqrtFrom(m, k) == IF (k + 1) * (k + 1) > m THEN k ELSE ISqrtFrom(m, k + 1)
ISqrt(m) == ISqrtFrom(m, 0)

\* matrices as sequences of rows
Eye(n) == Eager([i \in 1..n |-> [j \in 1..n |-> IF i = j THEN One ELSE Zero]])
MScale(c, A) == Eager([i \in 1..Len(A) |-> [j \in 1..Len(A[i]) |-> RMul(c, A[i][j])]])
MAdd(A, B) == Eager([i \in 1..Len(A) |-> [j \in 1..Len(A[i]) |-> RAdd(A[i][j], B[i][j])]])
MSub(A, B) == Eager([i \in 1..Len(A) |-> [j \in 1..Len(A[i]) |-> RSub(A[i][j], B[i][j])]])
MHadamard(A, B) == Eager([i \in 1..Len(A) |-> [j \in 1..Len(A[i]) |-> RMul(A[i][j], B[i][j])]])
MDivScalar(A, c) == Eager([i \in 1..Len(A) |-> [j \in 1..Len(A[i]) |-> RDiv(A[i][j], c)]])
MTranspose(A) == Eager([i \in 1..Len(A[1]) |-> [j \in 1..Len(A) |-> A[j][i]]])
MMul(A, B) ==
    Eager([i \in 1..Len(A) |-> [j \in 1..Len(B[1]) |->
             RSum([k \in 1..Len(B) |-> RMul(A[i][k], B[k][j])])]])
\* np.einsum('ij,j->i', A, x)
MatVec(A, x) == Eager([i \in 1..Len(A) |-> RSum([j \in 1..Len(x) |-> RMul(A[i][j], x[j])])])
\* np.dot(x, y) and np.outer(x, y) of 1-D arrays
Dot(x, y) == RSum([i \in 1..Len(x) |-> RMul(x[i], y[i])])
Outer(x, y) == Eager([i \in 1..Len(x) |-> [j \in 1..Len(y) |-> RMul(x[i], y[j])]])
VSub(x, y) == Eager([i \in 1..Len(x) |-> RSub(x[i], y[i])])
VNeg(x) == Eager([i \in 1..Len(x) |-> RNeg(x[i])])

MIsFinite(A) == \A i \in 1..Len(A) : \A j \in 1..Len(A[i]) : ~Special(A[i][j])
VIsFinite(x) == \A i \in 1..Len(x) : ~Special(x[i])
MInRange(A) == \A i \in 1..Len(A) : \A j \in 1..Len(A[i]) : A[i][j] # OutOfRange
VInRange(x) == \A i \in 1..Len(x) : x[i] # OutOfRange

\* np.linalg.inv by Gauss-Jordan elimination with row pivoting on the pair
\* (A, B), B starting as the identity.  The result is [ok, m]: ok is FALSE
\* when the matrix is singular (numpy raises LinAlgError).
Poisoned(A) ==
    LET p == IF MInRange(A) THEN NaN ELSE OutOfRange
    IN  [i \in 1..Len(A) |-> [j \in 1..Len(A) |-> p]]

RECURSIVE GaussJordan(_, _, _)
GaussJordan(A, B, k) ==
    LET n == Len(A) IN
    IF k > n THEN [ok |-> TRUE, m |-> B]
    ELSE LET cand == {p \in k..n : A[p][k] # Zero} IN
         IF cand = {} THEN [ok |-> FALSE, m |-> B]
         ELSE LET p == CHOOSE q \in cand : \A q2 \in cand : q <= q2
                  swap(X) == [X EXCEPT ![k] = X[p], ![p] = X[k]]
                  A1 == swap(A)
                  B1 == swap(B)
                  piv == A1[k][k]
                  rowA == [j \in 1..n |-> RDiv(A1[k][j], piv)]
                  rowB == [j \in 1..n |-> RDiv(B1[k][j], piv)]
                  A2 == Eager([i \in 1..n |->
                           IF i = k THEN rowA
                           ELSE [j \in 1..n |-> RSub(A1[i][j], RMul(A1[i][k], rowA[j]))]])
                  B2 == Eager([i \in 1..n |->
                           IF i = k THEN rowB
                           ELSE [j \in 1..n |-> RSub(B1[i][j], RMul(A1[i][k], rowB[j]))]])
              IN  GaussJordan(A2, B2, k + 1)

\* np.linalg.inv(A): a non-finite input gives a non-finite result
Inv(A) ==
    IF ~MIsFinite(A) THEN [ok |-> TRUE, m |-> Poisoned(A)]
    ELSE GaussJordan(A, Eye(Len(A)), 1)

\* ------------------------------------------------------------ structure
\* A symmetry operation: a rotation acting on 3-vectors and the permutation
\* of the atoms it induces.
Rot(rows) == [i \in 1..3 |-> [j \in 1..3 |-> R(rows[i][j])]]
IdentityOp == [rot |-> Rot(<<<<1, 0, 0>>, <<0, 1, 0>>, <<0, 0, 1>>>>),
               perm |-> [a \in 1..NAtoms |-> a]]
MirrorZOp == [rot |-> Rot(<<<<1, 0, 0>>, <<0, 1, 0>>, <<0, 0, -1>>>>),
              perm |-> [a \in 1..NAtoms |-> a]]

\* structure.get_symmetry() of the structure the engine is bound to
StructureSymmetry == <<IdentityOp, MirrorZOp>>

\* symmetry.symmetrize_vectors(v): the average of the images of the field v
\* (one 3-vector per atom) under the symmetry operations
symmetrize_vectors(ops, v) ==
    LET image(o) == [a \in 1..NAtoms |-> MatVec(ops[o].rot, v.data[ops[o].perm[a]])]
    IN  [shape |-> v.shape,
         data |-> [a \in 1..NAtoms |-> [c \in 1..3 |->
                     RDiv(RSum([o \in 1..Len(ops) |-> image(o)[a][c]]), R(Len(ops)))]]]

\* ------------------------------------------------ QuasiNewtonInteractive
\* The engine object is a record self with the fields of the class; a
\* method is an operator giving [self, raised, ret]: the object after the
\* call, the exception raised (None if it returned) and the value returned.
\* A field that may hold Python's None, or may not be bound yet, holds
\* Nothing or Some(value).
Nothing == [set |-> FALSE]
Some(v) == [set |-> TRUE, val |-> v]

Returned(self, ret) == [self |-> self, raised |-> None, ret |-> ret]
Raised(self, exc) == [self |-> self, raised |-> exc, ret |-> Nothing]

\* hessian.setter
hessian_set(self, v) ==
    LET length == ISqrt(Size(v)) IN
    IF length * length # Size(v)
    THEN \* reshape raises after self._hessian was bound to np.array(v)
         Raised([self EXCEPT !._hessian = v], "ValueError")
    ELSE Returned([self EXCEPT !._hessian = Reshape(Flatten(v), length, length),
                               !._eigenvalues = Nothing,
                               !._eigenvectors = Nothing], Nothing)

\* np.linalg.eigh(a) reads the lower triangle of a only.  The eigenpairs are
\* kept as the symmetric matrix they decompose: eigh is a function of it.
LowerSym(A) == Eager([i \in 1..Len(A) |-> [j \in 1..Len(A) |-> IF j <= i THEN A[i][j] ELSE A[j][i]]])
eigh(a) == [w |-> [eigenvalues_of |-> LowerSym(a.data)],
            v |-> [eigenvectors_of |-> LowerSym(a.data)]]
IsSquare2D(a) == Len(a.shape) = 2 /\ a.shape[1] = a.shape[2]

\* _calc_eig.  On a matrix holding inf or nan LAPACK either reports a failure
\* (LinAlgError) or hands back nan eigenpairs, depending on the build:
\* lapack_fails is that outcome.
_calc_eig(self, lapack_fails) ==
    IF ~IsSquare2D(self._hessian) THEN Raised(self, "LinAlgError")
    ELSE IF lapack_fails /\ ~MIsFinite(self._hessian.data) THEN Raised(self, "LinAlgError")
    ELSE Returned([self EXCEPT !._eigenvalues = Some(eigh(self._hessian).w),
                               !._eigenvectors = Some(eigh(self._hessian).v)], Nothing)

\* eigenvalues (property)
eigenvalues(self, lapack_fails) ==
    IF ~self._eigenvalues.set
    THEN LET c == _calc_eig(self, lapack_fails) IN
         IF c.raised # None THEN c ELSE Returned(c.self, c.self._eigenvalues.val)
    ELSE Returned(self, self._eigenvalues.val)

\* eigenvectors (property)
eigenvectors(self, lapack_fails) ==
    IF ~self._eigenvectors.set
    THEN LET c == _calc_eig(self, lapack_fails) IN
         IF c.raised # None THEN c ELSE Returned(c.self, c.self._eigenvectors.val)
    ELSE Returned(self, self._eigenvectors.val)

\* the spectral inverse with the eigenvalues damped as 1/(w+reg)
SpectralInverseShifted(M, reg) ==
    IF ~MIsFinite(M) THEN Poisoned(M)
    ELSE Inv(MAdd(M, MScale(reg, Eye(Len(M))))).m

\* np.einsum('ik,k,jk->ij', V, w/(w**2+reg), V) for the eigenpairs (w, V) of
\* the symmetric matrix M: the matrix function M (M^2 + reg I)^-1
SpectralInverse(M, reg) ==
    IF ~MIsFinite(M) THEN Poisoned(M)
    ELSE MMul(M, Inv(MAdd(MMul(M, M), MScale(reg, Eye(Len(M))))).m)

\* self.hessian + np.eye(len(self.hessian)) * reg, with numpy's broadcasting
\* of a 1-D hessian (left by a failed assignment) against the square matrix
PlusRegularization(h, reg) ==
    LET n == h.shape[1] IN
    IF Len(h.shape) = 1
    THEN [i \in 1..n |-> [j \in 1..n |->
            RAdd(h.data[j], IF i = j THEN reg ELSE Zero)]]
    ELSE MAdd(h.data, MScale(reg, Eye(n)))

\* inv_hessian (property)
inv_hessian(self, lapack_fails) ==
    IF RGt(self.regularization, Zero)
    THEN IF self.use_eigenvalues
         THEN LET ev == eigenvectors(self, lapack_fails) IN
              IF ev.raised # None THEN ev
              ELSE LET ew == eigenvalues(ev.self, lapack_fails) IN
                   Returned(ew.self, SpectralInverse(ew.ret.eigenvalues_of,
                                                     self.regularization))
         ELSE LET inv == Inv(PlusRegularization(self._hessian, self.regularization)) IN
              IF ~inv.ok THEN Raised(self, "LinAlgError")
              ELSE Returned(self, inv.m)
    ELSE \* np.linnalg: numpy has no such attribute
         Raised(self, "AttributeError")

\* get_dg with the difference taken the other way round
get_dg_reversed(self, g) ==
    [shape |-> g.shape,
     data |-> [a \in 1..Len(g.data) |-> VSub(self.g_old.val.data[a], g.data[a])]]

\* get_dg
get_dg(self, g) ==
    [shape |-> g.shape,
     data |-> [a \in 1..Len(g.data) |-> VSub(g.data[a], self.g_old.val.data[a])]]

\* _get_SR
DefaultThreshold == Q(1, 10000)

SRDenominator(d, threshold) ==
    IF RLt(RAbs(d), threshold) THEN RAdd(d, threshold) ELSE d

_get_SR(dx, dg, H_tmp, threshold) ==
    MDivScalar(Outer(H_tmp, H_tmp), SRDenominator(Dot(H_tmp, dx), threshold))

\* _get_PSB without the transposed term
_get_PSB_onesided(dx, dg, H_tmp) ==
    LET dxdx == Dot(dx, dx)
        dH == MDivScalar(MScale(R(2), Outer(H_tmp, dx)), dxdx)
    IN  MSub(dH, MDivScalar(MScale(Dot(dx, H_tmp), Outer(dx, dx)), RMul(dxdx, dxdx)))

\* _get_PSB
_get_PSB(dx, dg, H_tmp) ==
    LET dxdx == Dot(dx, dx)
        dH0 == Outer(H_tmp, dx)
        dH == MDivScalar(MAdd(dH0, MTranspose(dH0)), dxdx)
    IN  MSub(dH, MDivScalar(MScale(Dot(dx, H_tmp), Outer(dx, dx)), RMul(dxdx, dxdx)))

\* _get_BFGS
_get_BFGS(dx, dg, H_tmp) ==
    MSub(MDivScalar(Outer(dg, dg), Dot(dg, dx)),
         MDivScalar(Outer(H_tmp, H_tmp), Dot(dx, H_tmp)))

\* update_hessian; the threshold argument is not handed on to _get_SR, which
\* runs with its own default
update_hessian(self, g, threshold, mode) ==
    IF ~self.g_old.set
    THEN Returned([self EXCEPT !.g_old = Some(g)], Nothing)
    ELSE IF ~self.dx.set
    THEN Raised(self, "AttributeError")
    ELSE IF self._hessian.shape # <<Size(g), Size(g)>>
    THEN \* the einsum of the hessian with dx cannot be formed
         Raised(self, "ValueError")
    ELSE LET dg == Flatten(get_dg(self, g))
             dx == Flatten(self.dx.val)
             H_tmp == VSub(dg, MatVec(self._hessian.data, dx))
             H == self._hessian.data
             assign(dH) ==
                 LET r == hessian_set(self, Arr2(MAdd(dH, H))) IN
                 Returned([r.self EXCEPT !.g_old = Some(g)], Nothing)
         IN  IF mode = "SR" THEN assign(_get_SR(dx, dg, H_tmp, DefaultThreshold))
             ELSE IF mode = "PSB" THEN assign(_get_PSB(dx, dg, H_tmp))
             ELSE IF mode = "BFGS" THEN assign(_get_BFGS(dx, dg, H_tmp))
             ELSE Raised(self, "ValueError")

\* get_dx, lines 103-105: the step dx is symmetrized if the engine holds a
\* symmetry, stored and returned
get_dx_store(self, dx) == Returned([self EXCEPT !.dx = Some(dx)], dx)
get_dx_symmetrize(self, raw) ==
    get_dx_store(self, IF self.symmetry.set
                       THEN symmetrize_vectors(self.symmetry.val, raw)
                       ELSE raw)

\* get_dx, line 102: the step from the inverse Hessian ih = [self, raised, ret]
get_dx_step(ih, g) ==
    IF ih.raised # None THEN ih
    ELSE IF Len(ih.ret) # Size(g) THEN Raised(ih.self, "ValueError")
    ELSE get_dx_symmetrize(ih.self,
                           Reshape(VNeg(MatVec(ih.ret, Flatten(g))), Size(g) \div 3, 3))

\* get_dx, lines 102-105, after update_hessian had the outcome u
get_dx_after(u, g, lapack_fails) ==
    IF u.raised # None THEN u
    ELSE get_dx_step(inv_hessian(u.self, lapack_fails), g)

\* get_dx leaving as soon as the first call has seeded g_old
get_dx_seed_only(self, g, threshold, mode, lapack_fails) ==
    IF ~self.g_old.set /\ update_hessian(self, g, threshold, mode).raised = None
    THEN Returned(update_hessian(self, g, threshold, mode).self, Nothing)
    ELSE get_dx_after(update_hessian(self, g, threshold, mode), g, lapack_fails)

\* get_dx
get_dx(self, g, threshold, mode, lapack_fails) ==
    get_dx_after(update_hessian(self, g, threshold, mode), g, lapack_fails)

\* _initialize_hessian; diffusion_id counts the atoms from 1
_initialize_hessian(self, starting_h, diffusion_id, diffusion_direction) ==
    LET seeded == IF Size(starting_h) = Dim * Dim
                  THEN hessian_set(self, starting_h)
                  ELSE hessian_set(self, Arr2(MScale(starting_h.data, Eye(Dim))))
    IN
    IF seeded.raised # None THEN seeded
    ELSE IF diffusion_id.set /\ diffusion_direction.set
    THEN LET v == [k \in 1..Dim |->
                     IF ((k - 1) \div 3) + 1 = diffusion_id.val
                     THEN diffusion_direction.val[((k - 1) % 3) + 1] ELSE Zero]
             vv == MDivScalar(Outer(v, v), Dot(v, v))
             \* (starting_h+1)*vv: a scalar factor, or an elementwise product
             corr == IF Len(starting_h.shape) = 0
                     THEN MScale(RAdd(starting_h.data, One), vv)
                     ELSE MHadamard([i \in 1..Dim |-> [j \in 1..Dim |->
                                       RAdd(starting_h.data[i][j], One)]], vv)
             biased == hessian_set(seeded.self, Arr2(MSub(seeded.self._hessian.data, corr)))
         IN  Returned([biased.self EXCEPT !.use_eigenvalues = TRUE], Nothing)
    ELSE IF diffusion_id.set \/ diffusion_direction.set
    THEN Raised(seeded.self, "ValueError")
    ELSE seeded

\* __init__
Blank == [use_eigenvalues |-> FALSE, regularization |-> Nothing, _hessian |-> Nothing,
          _eigenvalues |-> Nothing, _eigenvectors |-> Nothing, g_old |-> Nothing,
          dx |-> Nothing, symmetry |-> Nothing]

__init__(starting_h, diffusion_id, use_eigenvalues, diffusion_direction, regularization, symmetrize) ==
    LET s0 == [Blank EXCEPT !.use_eigenvalues = use_eigenvalues,
                            !.symmetry = IF symmetrize THEN Some(StructureSymmetry)
                                         ELSE Nothing]
        h == _initialize_hessian(s0, starting_h, diffusion_id, diffusion_direction)
    IN
    IF h.raised # None THEN h
    ELSE LET s1 == [h.self EXCEPT !.regularization =
                       IF h.self.use_eigenvalues THEN RMul(regularization, regularization)
                       ELSE regularization]
         IN  IF s1.use_eigenvalues /\ s1.regularization = Zero
             THEN Raised(s1, "ValueError")
             ELSE Returned(s1, Nothing)

\* --------------------------------------------------------------- Hessian
\* The builder object is a record self; its structure has self.n atoms on the
\* body diagonal of a cubic cell, and self.ops are the operations of
\* structure.get_symmetry(), each a rotation and a translation in scaled
\* coordinates.  A vector field is a sequence of one 3-vector per atom.
\* Lengths are in units of 1e-8, the absolute tolerance of np.isclose.

\* np.isclose(x, 0): |x| <= atol + rtol * 0
IsCloseToZero(x) == ~Special(x) /\ ~RGt(RAbs(x), One)

\* structure.get_scaled_positions()
ScaledPositions(n) == [a \in 1..n |-> [c \in 1..3 |-> Q(a, n + 1)]]

\* x - np.floor(x + epsilon): epsilon = 1e-8 is below the resolution
\* 1 / MaxNum of the numbers here, so that floor(x + epsilon) = floor(x)
WrapScaled(x) == IF Special(x) THEN x ELSE RSub(x, R(x[1] \div x[2]))

Dist2(p, q) == Dot(VSub(p, q), VSub(p, q))

\* cKDTree(xs).query(p)[1]: the nearest of the points xs, the first of them
\* at equal distance
Nearest(xs, p) ==
    CHOOSE a \in 1..Len(xs) :
        /\ \A b \in 1..Len(xs) : ~RLt(Dist2(xs[b], p), Dist2(xs[a], p))
        /\ \A b \in 1..(a - 1) : RLt(Dist2(xs[a], p), Dist2(xs[b], p))

VAdd(x, y) == Eager([i \in 1..Len(x) |-> RAdd(x[i], y[i])])

\* indices (property): for each operation, the atom each atom is taken to
indices(n, ops) ==
    Eager([o \in 1..Len(ops) |-> [m \in 1..n |->
             Nearest(ScaledPositions(n),
                     [c \in 1..3 |-> WrapScaled(VAdd(MatVec(ops[o].rot, ScaledPositions(n)[m]),
                                                     ops[o].trans)[c])])]])

\* np.argsort(p): the positions of p in ascending order of their entries
ArgSort(p) ==
    [r \in 1..Len(p) |->
        CHOOSE i \in 1..Len(p) :
            Cardinality({j \in 1..Len(p) : p[j] < p[i] \/ (p[j] = p[i] /\ j < i)}) = r - 1]

\* the ascending sequence of the elements of a set of integers
RECURSIVE SortedSeq(_)
SortedSeq(S) ==
    IF S = {} THEN <<>>
    ELSE <<CHOOSE x \in S : \A y \in S : x <= y>>
         \o SortedSeq(S \ {CHOOSE x \in S : \A y \in S : x <= y})

\* np.sort(np.unique(result, return_index=True, axis=0)[1]): where each
\* distinct field occurs first
FirstOccurrences(result) ==
    SortedSeq({o \in 1..Len(result) : \A o2 \in 1..(o - 1) : result[o2] # result[o]})

\* result[indices]
Take(result, sel) == [i \in 1..Len(sel) |-> result[sel[i]]]

\* the images of the field v under all the operations
Images(self, v) ==
    Eager([o \in 1..Len(self.ops) |-> [m \in 1..self.n |->
             MatVec(self.ops[o].rot, v[ArgSort(self._indices[o])[m]])]])

\* _get_equivalent_vector: [vectors, indices]
EquivalentOf(result, sel) == [vectors |-> Take(result, sel), indices |-> sel]
EquivalentAmong(result, given) ==
    EquivalentOf(result, IF given.set THEN given.val ELSE FirstOccurrences(result))
_get_equivalent_vector(self, v, given) == EquivalentAmong(Images(self, v), given)

ZeroField(n) == [a \in 1..n |-> <<Zero, Zero, Zero>>]
FieldFlat(v) == Eager([k \in 1..(3 * Len(v)) |-> v[((k - 1) \div 3) + 1][((k - 1) % 3) + 1]])

\* np.any(np.isclose(all_displacements, 0))
AnyCloseToZero(all) == \E k \in 1..(3 * Len(all)) : IsCloseToZero(FieldFlat(all)[k])

\* ix[0], iy[0] of np.where(np.isclose(all_displacements, 0)), as the place
\* in row-major order
FirstCloseToZero(all) ==
    CHOOSE k \in 1..(3 * Len(all)) :
        /\ IsCloseToZero(FieldFlat(all)[k])
        /\ \A k2 \in 1..(k - 1) : ~IsCloseToZero(FieldFlat(all)[k2])

\* _get_next_displacement
ProbeAt(n, k, dx) ==
    [a \in 1..n |-> [c \in 1..3 |-> IF (a - 1) * 3 + c = k THEN dx ELSE Zero]]
_get_next_displacement(self, all) == ProbeAt(Len(all), FirstCloseToZero(all), self.dx)

\* all_displacements += np.absolute(inequi_displacements).sum(axis=0)
Covered(all, vectors) ==
    Eager([a \in 1..Len(all) |-> [c \in 1..3 |->
             RAdd(all[a][c], RSum([i \in 1..Len(vectors) |-> RAbs(vectors[i][a][c])]))]])

\* _generate_displacements: the loop with k rounds left, and its body
RECURSIVE GenerateFrom(_, _, _)
RECURSIVE GenerateProbe(_, _, _, _)
RECURSIVE GenerateImages(_, _, _, _, _)
GenerateFrom(self, all, k) ==
    IF k = 0 \/ ~AnyCloseToZero(all) THEN self
    ELSE GenerateProbe(self, all, k, _get_next_displacement(self, all))
GenerateProbe(self, all, k, d) ==
    GenerateImages(self, all, k, d, _get_equivalent_vector(self, d, Nothing))
GenerateImages(self, all, k, d, eq) ==
    GenerateFrom([self EXCEPT !._displacements = Append(@, d),
                              !._inequivalent_displacements = @ \o eq.vectors,
                              !._inequivalent_ids = Append(@, eq.indices)],
                 Covered(all, eq.vectors), k - 1)

\* the closing reshape(len, -1) of a list of fields
Rows(fields) == [i \in 1..Len(fields) |-> FieldFlat(fields[i])]
GeneratedRows(self) ==
    [self EXCEPT !._inequivalent_displacements = Rows(@)]
_generate_displacements(self) ==
    GeneratedRows(GenerateFrom(self, ZeroField(self.n), 3 * self.n))

\* displacements (property)
displacements_of(self) == Returned(self, self._displacements)
displacements(self) ==
    displacements_of(IF Len(self._displacements) = 0
                     THEN _generate_displacements(self) ELSE self)

\* np.array(x).shape of a list of fields
Shape(x) == IF Len(x) = 0 THEN <<0>> ELSE <<Len(x), Len(x[1]), 3>>

\* set_forces, its loop from probe p on: the rows to be added to the table
RECURSIVE ExpandedFrom(_, _, _)
ExpandedFrom(self, forces, p) ==
    IF p > Len(forces) \/ p > Len(self._inequivalent_ids) THEN <<>>
    ELSE _get_equivalent_vector(self, forces[p], Some(self._inequivalent_ids[p])).vectors
         \o ExpandedFrom(self, forces, p + 1)

\* set_forces after the displacements were read with the outcome d.  The
\* table is a list until the first call has made it an array, which has no
\* extend.
set_forces_on(d, forces) ==
    IF Shape(forces) # Shape(d.ret) THEN Raised(d.self, "AssertionError")
    ELSE IF d.self._inequivalent_forces.is_array THEN Raised(d.self, "AttributeError")
    ELSE Returned([d.self EXCEPT !._inequivalent_forces =
                      [is_array |-> TRUE, rows |-> Rows(ExpandedFrom(d.self, forces, 1))]],
                  Nothing)

\* set_forces
set_forces(self, forces) == set_forces_on(displacements(self), forces)

\* get_hessian, lines 355-363, without the sign of the estimate
get_hessian_solve_unsigned(self, invX, Y) ==
    IF ~invX.ok THEN Raised(self, "LinAlgError")
    ELSE Returned(self, MMul(Y, invX.m))

\* get_hessian, lines 355-363: the estimate from the inverse of X, and Y
get_hessian_solve(self, invX, Y) ==
    IF ~invX.ok THEN Raised(self, "LinAlgError")
    ELSE Returned(self, MScale(R(-1), MMul(Y, invX.m)))
get_hessian_on(s) ==
    IF s.raised # None THEN s
    ELSE get_hessian_solve(s.self,
                           Inv(MMul(MTranspose(s.self._inequivalent_displacements),
                                    s.self._inequivalent_displacements)),
                           MMul(MTranspose(s.self._inequivalent_forces.rows),
                                s.self._inequivalent_displacements))

\* get_hessian; forces is Nothing for None
get_hessian(self, forces) ==
    IF ~forces.set /\ Len(self._inequivalent_forces.rows) = 0
    THEN Raised(self, "AssertionError")
    ELSE get_hessian_on(IF forces.set THEN set_forces(self, forces.val)
                        ELSE Returned(self, Nothing))

\* Hessian.__init__
HessianInit(n, ops, dx) ==
    [n |-> n, ops |-> ops, _indices |-> indices(n, ops), dx |-> dx,
     _displacements |-> <<>>, _inequivalent_displacements |-> <<>>,
     _inequivalent_ids |-> <<>>,
     _inequivalent_forces |-> [is_array |-> FALSE, rows |-> <<>>]]

\* --------------------------------------------------------------- inputs
\* starting_h: a scalar, or an explicit symmetric matrix of side 3N
TriMatrix == [i \in 1..Dim |-> [j \in 1..Dim |->
                IF i = j THEN R(2) ELSE IF i - j \in {1, -1} THEN One ELSE Zero]]
DiagMatrix == [i \in 1..Dim |-> [j \in 1..Dim |-> IF i = j THEN R(i) ELSE Zero]]
StartingHs == {Arr0(R(2)), Arr2(TriMatrix)}
Regularizations == {Zero, Q(1, 2), Q(-1, 2)}

\* gradients: one 3-vector per atom, of alternating sign from atom to atom
Patterns == {<<One, Zero, One>>, <<Q(1, 100), Zero, Zero>>}
Gradient(p) ==
    [shape |-> <<NAtoms, 3>>,
     data |-> [a \in 1..NAtoms |-> IF a % 2 = 1 THEN p ELSE VNeg(p)]]
Gradients == {Gradient(p) : p \in Patterns}
ValidModes == {"SR", "PSB", "BFGS"}
Modes == ValidModes \cup {"DFP"}
\* the (mode, threshold) pairs of the calls: the threshold matters to SR only
CallKinds == {<<"SR", DefaultThreshold>>, <<"SR", One>>, <<"PSB", DefaultThreshold>>,
              <<"BFGS", DefaultThreshold>>, <<"DFP", DefaultThreshold>>}

\* values assigned to the hessian property: a flat list of (3N)^2 numbers, a
\* flat list whose length is no perfect square, and one whose length is the
\* square of another side
AssignedValues == {Arr1(Flatten(Arr2(DiagMatrix))),
                   Arr1(<<One, R(2)>>),
                   Arr1(<<One, R(2), R(2), R(5)>>)}

\* the symmetries of the structure of a Hessian builder: none, the inversion,
\* the threefold axis along the body diagonal and, for a single atom, the
\* full cubic group of the 48 signed permutations of the axes
NoTranslation == <<Zero, Zero, Zero>>
HIdentity == [rot |-> Rot(<<<<1, 0, 0>>, <<0, 1, 0>>, <<0, 0, 1>>>>), trans |-> NoTranslation]
AxisPermutations == <<<<1, 2, 3>>, <<2, 3, 1>>, <<3, 1, 2>>, <<2, 1, 3>>, <<1, 3, 2>>, <<3, 2, 1>>>>
SignedPermutation(k) ==
    [rot |-> [i \in 1..3 |-> [j \in 1..3 |->
                IF AxisPermutations[((k - 1) \div 8) + 1][i] # j THEN Zero
                ELSE IF (((k - 1) % 8) \div (IF i = 1 THEN 1 ELSE IF i = 2 THEN 2 ELSE 4)) % 2 = 0
                THEN One ELSE R(-1)]],
     trans |-> NoTranslation]
HCubic == [k \in 1..48 |-> SignedPermutation(k)]
HessianSymmetries(n) ==
    {<<HIdentity>>,
     <<HIdentity,
       [rot |-> Rot(<<<<-1, 0, 0>>, <<0, -1, 0>>, <<0, 0, -1>>>>), trans |-> NoTranslation]>>,
     <<HIdentity,
       [rot |-> Rot(<<<<0, 0, 1>>, <<1, 0, 0>>, <<0, 1, 0>>>>), trans |-> NoTranslation],
       [rot |-> Rot(<<<<0, 1, 0>>, <<0, 0, 1>>, <<1, 0, 0>>>>), trans |-> NoTranslation]>>}
        \cup (IF n = 1 THEN {HCubic} ELSE {})
HessianDxs == {R(10), R(-10), Q(1, 2), Zero}

\* force-constant matrices of a structure of n atoms: isotropic, with a
\* coupling of each atom to its inversion partner, and anisotropic
KCoupled(n) ==
    [i \in 1..(3 * n) |-> [j \in 1..(3 * n) |->
        IF i = j THEN R(2)
        ELSE IF (i - 1) % 3 = (j - 1) % 3 /\ ((i - 1) \div 3) + ((j - 1) \div 3) = n - 1
        THEN R(-1) ELSE Zero]]
ForceConstants(n) ==
    {MScale(R(2), Eye(3 * n)),
     KCoupled(n),
     [i \in 1..(3 * n) |-> [j \in 1..(3 * n) |-> IF i = j THEN R(((i - 1) % 3) + 1) ELSE Zero]]}

\* the forces F = -K x on the fields xs
Unflatten(x) == [a \in 1..(Len(x) \div 3) |-> [c \in 1..3 |-> x[(a - 1) * 3 + c]]]
ForcesFor(K, xs) == [p \in 1..Len(xs) |-> Unflatten(VNeg(MatVec(K, FieldFlat(xs[p]))))]

\* the arrays handed to set_forces and get_hessian: the forces of a force
\* constant matrix on the raw displacements, and an array with a field too many
ForceInputs(self) ==
    {ForcesFor(K, displacements(self).ret) : K \in ForceConstants(self.n)}
        \cup {Append(displacements(self).ret, ZeroField(self.n))}

\* ---------------------------------------------------------------- state
VARIABLES
    status,     \* "unbuilt", "ready" (constructed) or "failed" (__init__ raised)
    qn,         \* the QuasiNewtonInteractive object
    last,       \* the last call: [op, args, raised, ret]
    sr,         \* the last run of _get_SR: d = dot(H_tmp, dx), the threshold
                \* given to get_dx and the denominator divided by
    hist,       \* the modes of the Hessian updates applied so far, in order
    ncalls,     \* get_dx calls made
    nassign,    \* assignments to the hessian property made
    pc,         \* run_qn: where the driver stands ("idle": not called)
    job,        \* run_qn: the job: the positions of its structure, the forces
                \* of its last evaluation and the number of evaluations
    loc,        \* run_qn: its arguments and locals (its engine is qn)
    hstatus,    \* "unbuilt" or "built"
    hb,         \* the Hessian object
    hlast,      \* the last call on it: [op, args, raised, ret]
    hsupplied,  \* the forces the force table was filled from, if it was
    hcalls      \* set_forces and get_hessian calls made

hvars == <<hstatus, hb, hlast, hsupplied, hcalls>>
evars == <<status, qn, last, sr, hist, ncalls, nassign>>
rvars == <<pc, job, loc>>
vars == <<status, qn, last, sr, hist, ncalls, nassign, pc, job, loc,
          hstatus, hb, hlast, hsupplied, hcalls>>

Init ==
    /\ status = "unbuilt"
    /\ qn = Blank
    /\ last = [op |-> "none", args |-> Nothing, raised |-> None, ret |-> Nothing]
    /\ sr = Nothing
    /\ hist = <<>>
    /\ ncalls = 0
    /\ nassign = 0
    /\ pc = "idle"
    /\ job = Nothing
    /\ loc = Nothing
    /\ hstatus = "unbuilt"
    /\ hb = Nothing
    /\ hlast = [op |-> "none", args |-> Nothing, raised |-> None, ret |-> Nothing]
    /\ hsupplied = Nothing
    /\ hcalls = 0

\* every number the object holds is within the range of the model
InRange(self) ==
    /\ IF Len(self._hessian.shape) = 2 THEN MInRange(self._hessian.data)
       ELSE VInRange(self._hessian.data)
    /\ self.dx.set => MInRange(self.dx.val.data)

\* The state after a call with the outcome r = [self, raised, ret]; a call
\* whose numbers leave the range of the model is not taken.
Outcome(op, args, r) ==
    /\ InRange(r.self)
    /\ qn' = r.self
    /\ last' = [op |-> op, args |-> args, raised |-> r.raised,
                ret |-> IF r.raised = None THEN Some(r.ret) ELSE Nothing]

\* qn = QuasiNewtonInteractive(structure, ...)
Constructed(args, r) ==
    /\ status' = IF r.raised = None THEN "ready" ELSE "failed"
    /\ qn' = IF r.raised = None THEN r.self ELSE Blank
    /\ last' = [op |-> "__init__", args |-> args, raised |-> r.raised, ret |-> Nothing]

Construct ==
    /\ pc = "idle"
    /\ status = "unbuilt"
    /\ \E starting_h \in StartingHs, diffusion_id \in {Nothing, Some(1)},
          use_eigenvalues \in BOOLEAN, diffusion_direction \in {Nothing, Some(<<One, Zero, Zero>>)},
          regularization \in Regularizations, symmetrize \in BOOLEAN :
          Constructed([starting_h |-> starting_h,
                       diffusion_id |-> diffusion_id,
                       use_eigenvalues |-> use_eigenvalues,
                       diffusion_direction |-> diffusion_direction,
                       regularization |-> regularization,
                       symmetrize |-> symmetrize],
                      __init__(starting_h, diffusion_id, use_eigenvalues,
                               diffusion_direction, regularization, symmetrize))
    /\ UNCHANGED <<sr, hist, ncalls, nassign, rvars>>
    /\ UNCHANGED hvars

\* the outcomes LAPACK may have on the matrix h
LapackOutcomes(h) ==
    IF IsSquare2D(h) /\ ~MIsFinite(h.data) THEN BOOLEAN ELSE {FALSE}

\* what _get_SR works on in a call of update_hessian that reaches it
SRRun(self, g, threshold) ==
    LET dg == Flatten(get_dg(self, g))
        dx == Flatten(self.dx.val)
        H_tmp == VSub(dg, MatVec(self._hessian.data, dx))
        d == Dot(H_tmp, dx)
    IN  [d |-> d, threshold |-> threshold,
         denominator |-> SRDenominator(d, DefaultThreshold)]

\* the call of update_hessian gets as far as assigning a new Hessian
Updates(self, g, threshold, mode) ==
    self.g_old.set /\ update_hessian(self, g, threshold, mode).raised = None

\* qn.get_dx(g, threshold=threshold, mode=mode); r0 is the outcome when LAPACK
\* does not fail
GetDxOutcomes(g, threshold, mode, r0) ==
    {IF lapack_fails THEN get_dx(qn, g, threshold, mode, TRUE) ELSE r0 :
        lapack_fails \in LapackOutcomes(r0.self._hessian)}

\* the state of the engine after qn.get_dx(g, threshold=threshold, mode=mode)
\* with the outcome r
GetDxCall(g, threshold, mode, r) ==
    /\ Outcome("get_dx", [g |-> g, mode |-> mode], r)
    /\ sr' = IF Updates(qn, g, threshold, mode) /\ mode = "SR"
             THEN Some(SRRun(qn, g, threshold))
             ELSE Nothing
    /\ hist' = IF Updates(qn, g, threshold, mode) THEN Append(hist, mode) ELSE hist
    /\ ncalls' = ncalls + 1

GetDx ==
    /\ pc = "idle"
    /\ status = "ready"
    /\ ncalls < MaxCalls
    /\ \E g \in Gradients, kind \in CallKinds :
          \E r \in GetDxOutcomes(g, kind[2], kind[1],
                                 get_dx(qn, g, kind[2], kind[1], FALSE)) :
             GetDxCall(g, kind[2], kind[1], r)
    /\ UNCHANGED <<status, nassign, rvars>>
    /\ UNCHANGED hvars

\* qn.hessian = v
AssignHessian ==
    /\ pc = "idle"
    /\ status = "ready"
    /\ nassign < MaxAssign
    /\ \E v \in AssignedValues : Outcome("hessian", [v |-> v], hessian_set(qn, v))
    /\ nassign' = nassign + 1
    /\ UNCHANGED <<status, sr, hist, ncalls, rvars>>
    /\ UNCHANGED hvars

\* qn.eigenvalues
ReadEigenvalues ==
    /\ pc = "idle"
    /\ status = "ready"
    /\ \E lapack_fails \in LapackOutcomes(qn._hessian) :
          Outcome("eigenvalues", Nothing, eigenvalues(qn, lapack_fails))
    /\ UNCHANGED <<status, sr, hist, ncalls, nassign, rvars>>
    /\ UNCHANGED hvars

\* qn.eigenvectors
ReadEigenvectors ==
    /\ pc = "idle"
    /\ status = "ready"
    /\ \E lapack_fails \in LapackOutcomes(qn._hessian) :
          Outcome("eigenvectors", Nothing, eigenvectors(qn, lapack_fails))
    /\ UNCHANGED <<status, sr, hist, ncalls, nassign, rvars>>
    /\ UNCHANGED hvars

\* ---------------------------------------------------------------- run_qn
\* The job: one structure in a cubic cell, with harmonic forces towards the
\* centre of the cell.
JobCell == R(4)
Equilibrium == [a \in 1..NAtoms |-> <<R(2), R(2), R(2)>>]

\* job.output.forces[-1] after job.run() on the positions x
JobForce(x) ==
    [shape |-> <<NAtoms, 3>>,
     data |-> [a \in 1..NAtoms |-> [c \in 1..3 |->
                 RNeg(RMul(R(2), RSub(x.data[a][c], Equilibrium[a][c])))]]]

\* structure.center_coordinates_in_unit_cell(): every coordinate taken into
\* [0, cell)
Wrapped(x) ==
    LET wrap(c) == IF Special(c) THEN c
                   ELSE RSub(c, RMul(JobCell, R(c[1] \div (c[2] * JobCell[1]))))
    IN  [shape |-> x.shape,
         data |-> [a \in 1..NAtoms |-> [c \in 1..3 |-> wrap(x.data[a][c])]]]

\* np.linalg.norm(v, axis=-1).max() < t, for one 3-vector per atom
MaxNormBelow(v, t) ==
    /\ RGt(t, Zero)
    /\ \A a \in 1..NAtoms : RLt(Dot(v.data[a], v.data[a]), RMul(t, t))

ANeg(v) == [shape |-> v.shape, data |-> [a \in 1..NAtoms |-> VNeg(v.data[a])]]
AAdd(v, w) ==
    [shape |-> v.shape,
     data |-> [a \in 1..NAtoms |-> [c \in 1..3 |-> RAdd(v.data[a][c], w.data[a][c])]]]

\* the arguments of run_qn and the positions the job starts from
RunArgs ==
    [mode : Modes, ionic_steps : 0..MaxIonicSteps,
     ionic_force_tolerance : {Q(1, 100)},
     starting_h : {Arr0(R(2)), Arr0(Zero)}, diffusion_id : {Nothing},
     use_eigenvalues : BOOLEAN, diffusion_direction : {Nothing},
     regularization : {Zero, Q(1, 2)}, symmetrize : BOOLEAN,
     min_displacement : {Q(1, 100)}]
StartPositions ==
    {[shape |-> <<NAtoms, 3>>,
      data |-> [a \in 1..NAtoms |-> [c \in 1..3 |-> RAdd(Equilibrium[a][c], o[c])]]]
       : o \in {<<One, Zero, One>>, <<Q(1, 100), Zero, Zero>>, <<Zero, Zero, Zero>>}}

\* run_qn, lines 159-166: the engine is built; symmetrize is not handed on,
\* so the engine is built with its default, symmetrize=True
Begun(args, start, r) ==
    /\ Constructed([starting_h |-> args.starting_h,
                    diffusion_id |-> args.diffusion_id,
                    use_eigenvalues |-> args.use_eigenvalues,
                    diffusion_direction |-> args.diffusion_direction,
                    regularization |-> args.regularization,
                    symmetrize |-> TRUE], r)
    /\ pc' = IF r.raised = None THEN "run" ELSE "raised"
    /\ job' = Some([positions |-> start, forces |-> Nothing, nruns |-> 0])
    /\ loc' = Some([args |-> args, iter |-> 0, dx |-> Nothing, nmoves |-> 0,
                    warnings |-> 0,
                    exit |-> IF r.raised = None THEN "none" ELSE "raised"])

RunQnBegin ==
    /\ pc = "idle"
    /\ status = "unbuilt"
    /\ \E args \in RunArgs, start \in StartPositions :
          Begun(args, start,
                __init__(args.starting_h, args.diffusion_id, args.use_eigenvalues,
                         args.diffusion_direction, args.regularization, TRUE))
    /\ UNCHANGED <<sr, hist, ncalls, nassign>>
    /\ UNCHANGED hvars

\* job.run(), lines 167 and 178
JobRun ==
    /\ pc = "run"
    /\ job' = Some([job.val EXCEPT !.forces = Some(JobForce(job.val.positions)),
                                   !.nruns = job.val.nruns + 1])
    /\ pc' = "check"
    /\ UNCHANGED <<evars, loc>>
    /\ UNCHANGED hvars

\* a loop that does not count its iterations
CheckForcesUncounted ==
    /\ pc = "check"
    /\ IF MaxNormBelow(job.val.forces.val, loc.val.args.ionic_force_tolerance)
       THEN pc' = "done" /\ loc' = Some([loc.val EXCEPT !.iter = loc.val.iter + 1,
                                                        !.exit = "converged"])
       ELSE pc' = "propose" /\ loc' = Some([loc.val EXCEPT !.iter = loc.val.iter + 1])
    /\ UNCHANGED <<evars, job>>
    /\ UNCHANGED hvars

\* lines 168-171: the next iteration, if any, and the test of the forces
CheckForces ==
    /\ pc = "check"
    /\ IF loc.val.iter = loc.val.args.ionic_steps
       THEN pc' = "done" /\ loc' = Some([loc.val EXCEPT !.exit = "exhausted"])
       ELSE IF MaxNormBelow(job.val.forces.val, loc.val.args.ionic_force_tolerance)
       THEN pc' = "done" /\ loc' = Some([loc.val EXCEPT !.iter = loc.val.iter + 1,
                                                        !.exit = "converged"])
       ELSE pc' = "propose" /\ loc' = Some([loc.val EXCEPT !.iter = loc.val.iter + 1])
    /\ UNCHANGED <<evars, job>>
    /\ UNCHANGED hvars

\* lines 172-175: the engine is asked for a step, which is tested against
\* min_displacement; a step below it gives the warning 'line search alpha is
\* zero' and ends the loop
Proposed(g, mode, r) ==
    /\ GetDxCall(g, DefaultThreshold, mode, r)
    /\ IF r.raised # None
       THEN pc' = "raised" /\ loc' = Some([loc.val EXCEPT !.exit = "raised"])
       ELSE IF MaxNormBelow(r.ret, loc.val.args.min_displacement)
       THEN pc' = "done" /\ loc' = Some([loc.val EXCEPT !.dx = Some(r.ret),
                                                        !.warnings = loc.val.warnings + 1,
                                                        !.exit = "stalled"])
       ELSE pc' = "move" /\ loc' = Some([loc.val EXCEPT !.dx = Some(r.ret)])

ProposeCall(g, mode) ==
    \E r \in GetDxOutcomes(g, DefaultThreshold, mode,
                           get_dx(qn, g, DefaultThreshold, mode, FALSE)) :
       Proposed(g, mode, r)

Propose ==
    /\ pc = "propose"
    /\ \E g \in {ANeg(job.val.forces.val)}, mode \in {loc.val.args.mode} :
          ProposeCall(g, mode)
    /\ UNCHANGED <<status, nassign, job>>
    /\ UNCHANGED hvars

\* line 176: job.structure.positions += dx
Move ==
    /\ pc = "move"
    /\ \A a \in 1..NAtoms : VInRange(AAdd(job.val.positions, loc.val.dx.val).data[a])
    /\ job' = Some([job.val EXCEPT
                      !.positions = AAdd(job.val.positions, loc.val.dx.val)])
    /\ loc' = Some([loc.val EXCEPT !.nmoves = loc.val.nmoves + 1])
    /\ pc' = "wrap"
    /\ UNCHANGED evars
    /\ UNCHANGED hvars

\* a re-wrap that is not followed by job.run()
WrapUnevaluated ==
    /\ pc = "wrap"
    /\ job' = Some([job.val EXCEPT !.positions = Wrapped(job.val.positions)])
    /\ pc' = "check"
    /\ UNCHANGED <<evars, loc>>
    /\ UNCHANGED hvars

\* line 177: job.structure.center_coordinates_in_unit_cell()
Wrap ==
    /\ pc = "wrap"
    /\ job' = Some([job.val EXCEPT !.positions = Wrapped(job.val.positions)])
    /\ pc' = "run"
    /\ UNCHANGED <<evars, loc>>
    /\ UNCHANGED hvars

Next ==
    \/ Construct
    \/ GetDx
    \/ AssignHessian
    \/ ReadEigenvalues
    \/ ReadEigenvectors
    \/ RunQnBegin
    \/ JobRun
    \/ CheckForces
    \/ Propose
    \/ Move
    \/ Wrap

Spec == Init /\ [][Next]_vars

\* ------------------------------------------------------- Hessian builder
\* every number the builder holds is within the range of the model
HInRange(r) ==
    /\ \A i \in 1..Len(r.self._inequivalent_displacements) :
          VInRange(r.self._inequivalent_displacements[i])
    /\ \A i \in 1..Len(r.self._inequivalent_forces.rows) :
          VInRange(r.self._inequivalent_forces.rows[i])

\* the state after a call on the builder with the outcome r
HOutcome(op, args, r) ==
    /\ HInRange(r)
    /\ hb' = r.self
    /\ hlast' = [op |-> op, args |-> args, raised |-> r.raised,
                 ret |-> IF r.raised = None THEN Some(r.ret) ELSE Nothing]

\* the forces the table is filled from after a call with the outcome r
Supplied(forces, r) ==
    IF r.self._inequivalent_forces.is_array /\ ~hb._inequivalent_forces.is_array
    THEN forces ELSE hsupplied

\* hessian = Hessian(structure, dx)
HBuild ==
    /\ hstatus = "unbuilt"
    /\ \E n \in 1..MaxHessianAtoms, dx \in HessianDxs :
          \E ops \in HessianSymmetries(n) : hb' = HessianInit(n, ops, dx)
    /\ hstatus' = "built"
    /\ UNCHANGED <<hlast, hsupplied, hcalls, evars, rvars>>

\* hessian.displacements
HReadDisplacements ==
    /\ hstatus = "built"
    /\ HOutcome("displacements", Nothing, displacements(hb))
    /\ UNCHANGED <<hstatus, hsupplied, hcalls, evars, rvars>>

\* hessian.set_forces(forces)
HSetForcesCall(forces, r) ==
    /\ HOutcome("set_forces", Some(forces), r)
    /\ hsupplied' = Supplied(Some(forces), r)

HSetForces ==
    /\ hstatus = "built"
    /\ hcalls < MaxHessianCalls
    /\ \E forces \in ForceInputs(hb) : HSetForcesCall(forces, set_forces(hb, forces))
    /\ hcalls' = hcalls + 1
    /\ UNCHANGED <<hstatus, evars, rvars>>

\* hessian.get_hessian(forces)
HGetHessianCall(forces, r) ==
    /\ r.raised = None => MInRange(r.ret)
    /\ HOutcome("get_hessian", forces, r)
    /\ hsupplied' = Supplied(forces, r)

HGetHessian ==
    /\ hstatus = "built"
    /\ hcalls < MaxHessianCalls
    /\ \E forces \in {Nothing} \cup {Some(f) : f \in ForceInputs(hb)} :
          HGetHessianCall(forces, get_hessian(hb, forces))
    /\ hcalls' = hcalls + 1
    /\ UNCHANGED <<hstatus, evars, rvars>>

NextHessian ==
    \/ HBuild
    \/ HReadDisplacements
    \/ HSetForces
    \/ HGetHessian

SpecHessian == Init /\ [][NextHessian]_vars

\* ================================================================ claims
IsGetDx == status = "ready" /\ last.op = "get_dx"
\* a step that is a call of get_dx
GetDxStep == status = "ready" /\ ncalls' = ncalls + 1

\* the matrix k*I of side 3N, and -g/k as one 3-vector per atom
ScalarMatrix(k) == MScale(k, Eye(Dim))
MinusGOver(g, k) ==
    [shape |-> <<NAtoms, 3>>,
     data |-> [a \in 1..NAtoms |-> [c \in 1..3 |-> RNeg(RDiv(g.data[a][c], k))]]]

\* C1: on an engine built with eigen-mode off and regularization 0 whose
\* Hessian is k*I (k > 0), get_dx(g) returns the displacement -g/k instead of
\* raising.  (Stated for the first call of an engine without symmetrization.)
C1_ZeroRegularizationStep ==
    (/\ IsGetDx /\ ncalls = 1 /\ nassign = 0
     /\ ~qn.use_eigenvalues /\ qn.regularization = Zero /\ ~qn.symmetry.set
     /\ qn._hessian.data = ScalarMatrix(qn._hessian.data[1][1])
     /\ RGt(qn._hessian.data[1][1], Zero))
    => /\ last.raised = None
       /\ last.ret = Some(MinusGOver(last.args.g, qn._hessian.data[1][1]))

\* the first iteration of run_qn has had its call of get_dx
FirstIterationProposed ==
    pc \in {"move", "wrap", "run", "check", "propose", "done"} /\ ncalls = 1

\* C2 as claimed: the first get_dx call on a fresh engine only seeds state:
\* it returns no displacement and stores none, and the first iteration of
\* run_qn makes no structural move.
C2_FirstCallReturnsNothing ==
    /\ (IsGetDx /\ ncalls = 1 /\ nassign = 0) => (~last.ret.set /\ ~qn.dx.set)
    /\ FirstIterationProposed => (pc # "move" /\ loc.val.nmoves = 0)

\* the step get_dx computes from the object self and the gradient g, if the
\* inverse Hessian can be read
ProposedStep(self, g) ==
    LET ih == inv_hessian(self, FALSE)
        raw == Reshape(VNeg(MatVec(ih.ret, Flatten(g))), NAtoms, 3)
    IN  IF ih.raised # None THEN Nothing
        ELSE IF self.symmetry.set THEN Some(symmetrize_vectors(self.symmetry.val, raw))
        ELSE Some(raw)

\* C2 amended: the first get_dx call on a fresh engine stores the gradient in
\* g_old, leaves the Hessian as it is and, unless the inversion raises,
\* returns and stores the displacement -inv_hessian * g of the seed Hessian
\* (symmetrized when the engine holds a symmetry). In the first iteration of
\* run_qn that displacement, unless it is below min_displacement, is added to
\* the positions before the forces are evaluated a second time.
C2_FirstCallProposesStep ==
    /\ [][(GetDxStep /\ ~qn.g_old.set /\ nassign = 0)
          => /\ qn'.g_old = Some(last'.args.g)
             /\ qn'._hessian = qn._hessian
             /\ (last'.raised = None
                 => /\ last'.ret = ProposedStep(qn, last'.args.g)
                    /\ last'.ret.set
                    /\ qn'.dx = last'.ret)]_vars
    /\ [][(pc = "propose" /\ ncalls = 0 /\ last'.raised = None)
          => /\ last'.args.g = ANeg(job.val.forces.val)
             /\ loc'.val.dx = last'.ret
             /\ pc' = IF MaxNormBelow(last'.ret.val, loc.val.args.min_displacement)
                      THEN "done" ELSE "move"]_vars
    /\ [][(pc = "move" /\ ncalls = 1)
          => /\ job'.val.positions = AAdd(job.val.positions, last.ret.val)
             /\ job'.val.nruns = 1
             /\ loc'.val.nmoves = 1]_vars
    /\ []((pc = "check" /\ job.val.nruns = 2) => (ncalls = 1 /\ loc.val.nmoves = 1))

C2_Witness ==
    /\ pc = "check" /\ job.val.nruns = 2 /\ loc.val.nmoves = 1
    /\ IsGetDx /\ ncalls = 1 /\ nassign = 0 /\ last.raised = None
    /\ qn.dx.set /\ qn.dx = last.ret
    /\ \E a \in 1..NAtoms : \E c \in 1..3 : qn.dx.val.data[a][c] # Zero

\* the increment an update rule gives for the previous displacement dx
\* (one 3-vector per atom), the gradients g_old and g and the Hessian H
Increment(mode, H, dx, g_old, g) ==
    LET dg == [k \in 1..Dim |-> RSub(Flatten(g)[k], Flatten(g_old)[k])]
        dxf == Flatten(dx)
        H_tmp == VSub(dg, MatVec(H, dxf))
    IN  IF mode = "SR" THEN _get_SR(dxf, dg, H_tmp, DefaultThreshold)
        ELSE IF mode = "PSB" THEN _get_PSB(dxf, dg, H_tmp)
        ELSE _get_BFGS(dxf, dg, H_tmp)

\* C3: on an engine with regularization > 0 the first get_dx call leaves the
\* Hessian unchanged and sets g_old to the gradient; every later call that
\* returns, with a valid mode, replaces H by H + dH, dH being computed from
\* dg = gradient - g_old and the displacement the previous call returned, and
\* sets g_old to the gradient; after a call that returned, g_old is the
\* gradient of that call and dx the displacement it returned.
C3_UpdateStep ==
    /\ []((IsGetDx /\ last.raised = None /\ RGt(qn.regularization, Zero))
          => (qn.g_old = Some(last.args.g) /\ qn.dx = last.ret))
    /\ [][(GetDxStep /\ RGt(qn.regularization, Zero))
          => IF ~qn.g_old.set
             THEN qn'._hessian = qn._hessian /\ qn'.g_old = Some(last'.args.g)
             ELSE (last'.raised = None /\ last'.args.mode \in ValidModes)
                  => /\ qn'._hessian.data =
                          MAdd(qn._hessian.data,
                               Increment(last'.args.mode, qn._hessian.data, qn.dx.val,
                                         qn.g_old.val, last'.args.g))
                     /\ qn'.g_old = Some(last'.args.g)]_vars

C3_Witness ==
    /\ IsGetDx /\ last.raised = None /\ RGt(qn.regularization, Zero)
    /\ Len(hist) = 2 /\ IsSquare2D(qn._hessian) /\ MIsFinite(qn._hessian.data)
    /\ qn.g_old = Some(last.args.g)
    /\ qn._hessian.data[1][1] # qn._hessian.data[2][2]

\* C4: every read of eigenvalues or eigenvectors returns the
\* eigendecomposition of the Hessian stored in the engine at that moment.
C4_EigenpairsOfCurrentHessian ==
    /\ (status = "ready" /\ last.op = "eigenvalues" /\ last.raised = None)
       => (IsSquare2D(qn._hessian) /\ last.ret.val = eigh(qn._hessian).w)
    /\ (status = "ready" /\ last.op = "eigenvectors" /\ last.raised = None)
       => (IsSquare2D(qn._hessian) /\ last.ret.val = eigh(qn._hessian).v)

\* C5: the stored Hessian is a square matrix of side 3N in every state of a
\* constructed engine.
C5_HessianIsSquare3N ==
    status = "ready" => qn._hessian.shape = <<Dim, Dim>>

\* C6: a get_dx call whose mode is none of SR, PSB, BFGS raises, in every
\* engine state, and leaves the Hessian, g_old and the stored displacement
\* as they were.  (Stated for the engines whose inv_hessian can be read,
\* regularization > 0, where nothing else raises.)
C6_InvalidModeRaises ==
    [][(GetDxStep /\ RGt(qn.regularization, Zero) /\ last'.args.mode \notin ValidModes)
       => /\ last'.raised # None
          /\ qn'._hessian = qn._hessian
          /\ qn'.g_old = qn.g_old
          /\ qn'.dx = qn.dx]_vars

\* the construction had eigen-mode in effect: asked for, or forced by a
\* diffusion id given together with a diffusion direction
EigenModeInEffect(args) ==
    args.use_eigenvalues \/ (args.diffusion_id.set /\ args.diffusion_direction.set)
DiffusionArgsValid(args) == args.diffusion_id.set = args.diffusion_direction.set

\* C7: construction with eigen-mode in effect raises exactly when the
\* regularization given is not greater than 0.
C7_EigenModeNeedsPositiveRegularization ==
    (last.op = "__init__" /\ DiffusionArgsValid(last.args) /\ EigenModeInEffect(last.args))
    => ((last.raised # None) <=> ~RGt(last.args.regularization, Zero))

IsDiagonal(A) == \A i \in 1..Len(A) : \A j \in 1..Len(A) : i # j => A[i][j] = Zero
\* the diagonal matrix of lambda_i / (lambda_i^2 + c) for the diagonal matrix A
DampedInverse(A, c) ==
    [i \in 1..Len(A) |-> [j \in 1..Len(A) |->
        IF i = j THEN RDiv(A[i][i], RAdd(RMul(A[i][i], A[i][i]), c)) ELSE Zero]]
EigenEngineBuilt ==
    /\ last.op = "__init__" /\ last.raised = None /\ qn.use_eigenvalues
    /\ RGt(last.args.regularization, Zero) /\ IsDiagonal(qn._hessian.data)

\* C8 as claimed: with eigen-mode on and the regularization argument r > 0,
\* inv_hessian of a diagonal Hessian has the eigenvalues
\* lambda_i / (lambda_i^2 + r).
C8_DampedByR ==
    EigenEngineBuilt
    => inv_hessian(qn, FALSE).ret = DampedInverse(qn._hessian.data, last.args.regularization)

\* C8 amended: with eigen-mode on and the regularization argument r > 0,
\* inv_hessian of a diagonal Hessian has the eigenvalues
\* lambda_i / (lambda_i^2 + r^2): the engine stores the square of r.
C8_DampedByRSquared ==
    EigenEngineBuilt
    => inv_hessian(qn, FALSE).ret =
          DampedInverse(qn._hessian.data,
                        RMul(last.args.regularization, last.args.regularization))

C8_Witness ==
    EigenEngineBuilt /\ qn._hessian.data[1][1] # qn._hessian.data[2][2]

\* the denominator C9 describes for d = dot(H_tmp, dx) and the threshold t
NudgedAway(d, t) ==
    IF RLt(RAbs(d), t)
    THEN IF RLt(d, Zero) THEN RSub(d, t) ELSE RAdd(d, t)
    ELSE d

\* C9: the denominator _get_SR divides by is d moved away from zero by the
\* threshold given to get_dx, keeping its sign, when |d| is below that
\* threshold, and d itself otherwise.
C9_DenominatorNudgedAwayFromZero ==
    (sr.set /\ ~Special(sr.val.d))
    => sr.val.denominator = NudgedAway(sr.val.d, sr.val.threshold)

IsSymmetric(A) == \A i \in 1..Len(A) : \A j \in 1..Len(A) : A[i][j] = A[j][i]

\* C10: the Hessian of an engine seeded with a symmetric matrix is symmetric
\* after any number of SR, PSB and BFGS updates whose denominators are not
\* zero (the Hessian is finite).
C10_HessianStaysSymmetric ==
    (status = "ready" /\ IsSquare2D(qn._hessian) /\ MIsFinite(qn._hessian.data))
    => IsSymmetric(qn._hessian.data)

C10_Witness ==
    /\ status = "ready" /\ nassign = 0 /\ Len(hist) = 2 /\ hist[1] # hist[2]
    /\ IsSquare2D(qn._hessian) /\ MIsFinite(qn._hessian.data)
    /\ \E i \in 1..Dim : \E j \in 1..Dim : i # j /\ qn._hessian.data[i][j] # Zero

\* ------------------------------------------------------------ C11
\* the operations of the builder permute the atoms one-to-one
PermutesAtoms(self) ==
    \A o \in 1..Len(self.ops) : \A a \in 1..self.n : \E m \in 1..self.n : self._indices[o][m] = a

\* the entry k (row-major) is nonzero in a symmetry image of one of the probes
CoveredBy(self, probes, k) ==
    \E p \in 1..Len(probes) : \E o \in 1..Len(self.ops) :
        FieldFlat(Images(self, probes[p])[o])[k] # Zero

DisplacementsGenerated == hstatus = "built" /\ Len(hb._displacements) > 0

\* C11 as claimed: with dx # 0 and operations that permute the atoms, the
\* generated probes are at most 3N, cover every entry, each is dx at the first
\* entry not covered by the images of the earlier probes and zero elsewhere,
\* and they are distinct; an identity-only set gives 3N probes and one atom
\* with the full cubic group gives one.
C11_MinimalProbes ==
    (DisplacementsGenerated /\ hb.dx # Zero /\ PermutesAtoms(hb))
    => /\ Len(hb._displacements) <= 3 * hb.n
       /\ \A k \in 1..(3 * hb.n) : CoveredBy(hb, hb._displacements, k)
       /\ \A p \in 1..Len(hb._displacements) : \E k \in 1..(3 * hb.n) :
             /\ hb._displacements[p] = ProbeAt(hb.n, k, hb.dx)
             /\ ~CoveredBy(hb, SubSeq(hb._displacements, 1, p - 1), k)
             /\ \A k2 \in 1..(k - 1) : CoveredBy(hb, SubSeq(hb._displacements, 1, p - 1), k2)
       /\ \A p \in 1..Len(hb._displacements) : \A q \in 1..Len(hb._displacements) :
             p # q => hb._displacements[p] # hb._displacements[q]
       /\ Len(hb.ops) = 1 => Len(hb._displacements) = 3 * hb.n
       /\ (hb.n = 1 /\ hb.ops = HCubic) => Len(hb._displacements) = 1

\* ------------------------------------------------------------ C12
GetHessianStep == hstatus = "built" /\ hcalls' = hcalls + 1 /\ hlast'.op = "get_hessian"

\* the forces handed to the call have the shape of the raw displacements
WellShaped(self, forces) == Shape(forces) = Shape(displacements(self).ret)

\* C12 as claimed (for a step dx the coverage test tells from zero): a call of
\* get_hessian raises when no forces are passed and none were supplied
\* before, and returns whenever well-shaped forces are passed, were supplied
\* before, or both.
C12_FailsOnlyWithoutForces ==
    [][(GetHessianStep /\ ~IsCloseToZero(hb.dx))
       => /\ (~hlast'.args.set /\ ~hsupplied.set) => hlast'.raised # None
          /\ ((hlast'.args.set /\ WellShaped(hb, hlast'.args.val))
              \/ (~hlast'.args.set /\ hsupplied.set)) => hlast'.raised = None]_vars

\* ------------------------------------------------------------ C13
\* the force-constant matrix K commutes with every operation of the builder
ImagesAgree(K, imagesOfKx, imagesOfx) ==
    \A o \in 1..Len(imagesOfx) :
        imagesOfKx[o] = Unflatten(MatVec(K, FieldFlat(imagesOfx[o])))
Compatible(self, K) ==
    \A k \in 1..(3 * self.n) :
        ImagesAgree(K, Images(self, Unflatten(MatVec(K, FieldFlat(ProbeAt(self.n, k, One))))),
                    Images(self, ProbeAt(self.n, k, One)))

\* the Gram matrix of the independent displacements has an inverse
GramInvertible(self) ==
    /\ Len(self._inequivalent_displacements) > 0
    /\ Inv(MMul(MTranspose(self._inequivalent_displacements),
                self._inequivalent_displacements)).ok

\* the call supplies the forces itself, or reads the forces supplied before
SuppliedOnce == (hlast'.args.set /\ ~hsupplied.set) \/ (~hlast'.args.set /\ hsupplied.set)

\* C13: a call of get_hessian on the forces F = -K x of the raw displacements
\* x, supplied in the call or before it, returns K, if K commutes with the
\* operations and the Gram matrix of the independent displacements has an
\* inverse.
C13_RoundTrip ==
    [][(GetHessianStep /\ SuppliedOnce)
       => \A K \in ForceConstants(hb.n) :
             (/\ hsupplied' = Some(ForcesFor(K, hb'._displacements))
              /\ Compatible(hb', K)
              /\ GramInvertible(hb'))
             => (hlast'.raised = None /\ hlast'.ret = Some(K))]_vars

C13_Witness ==
    /\ hstatus = "built" /\ hlast.op = "get_hessian" /\ hlast.raised = None
    /\ hb.n = 2 /\ Len(hb.ops) > 1 /\ Len(hb._displacements) < 3 * hb.n
    /\ hsupplied = Some(ForcesFor(KCoupled(2), hb._displacements))
    /\ hlast.ret = Some(KCoupled(2))

\* ------------------------------------------------------------ C17
SetForcesStep == hstatus = "built" /\ hcalls' = hcalls + 1 /\ hlast'.op = "set_forces"

\* the rows of the tables that come before those of probe p
RECURSIVE RowsBefore(_, _)
RowsBefore(self, p) ==
    IF p = 1 THEN 0 ELSE RowsBefore(self, p - 1) + Len(self._inequivalent_ids[p - 1])

\* the image of the field of probe p under the j-th operation recorded for it
RecordedImage(self, fields, p, j) ==
    FieldFlat(Images(self, fields[p])[self._inequivalent_ids[p][j]])

\* row by row, the table holds the recorded images of the fields
HoldsImagesOf(self, table, fields) ==
    /\ Len(table) = RowsBefore(self, Len(self._inequivalent_ids) + 1)
    /\ \A p \in 1..Len(self._inequivalent_ids) :
          \A j \in 1..Len(self._inequivalent_ids[p]) :
              table[RowsBefore(self, p) + j] = RecordedImage(self, fields, p, j)

\* C17 as claimed: set_forces raises on forces of another shape than the raw
\* displacements and leaves the force table as it was; on forces of that
\* shape it fills the force table with the images of the force of each probe
\* under the operations recorded for that probe, so that the table has as
\* many rows as the table of independent displacements and row i of both is
\* the image of the same probe under the same operation.
C17_ForcesAlignedWithDisplacements ==
    [][SetForcesStep
       => IF ~WellShaped(hb, hlast'.args.val)
          THEN /\ hlast'.raised # None
               /\ hb'._inequivalent_forces = hb._inequivalent_forces
          ELSE /\ hlast'.raised = None
               /\ Len(hb'._inequivalent_forces.rows) = Len(hb'._inequivalent_displacements)
               /\ HoldsImagesOf(hb', hb'._inequivalent_forces.rows, hlast'.args.val)
               /\ HoldsImagesOf(hb', hb'._inequivalent_displacements, hb'._displacements)]_vars

\* ------------------------------------------------------------ C14
RunSteps == loc.val.args.ionic_steps

\* the force test of line 170 and the step test of line 173, on the state
ForcesBelowTolerance ==
    MaxNormBelow(job.val.forces.val, loc.val.args.ionic_force_tolerance)
StepBelowMinimum(dx) == MaxNormBelow(dx, loc.val.args.min_displacement)

\* an upper bound on the steps run_qn still takes: five per iteration to come
\* and the rest of the current one
RunRank ==
    IF pc \in {"done", "raised"}
    THEN 0
    ELSE 5 * (RunSteps - loc.val.iter)
         + (CASE pc = "run" -> 2
              [] pc = "check" -> 1
              [] pc = "propose" -> 5
              [] pc = "move" -> 4
              [] pc = "wrap" -> 3)

\* C14: run_qn always terminates: every step of a run lowers a rank that is
\* never negative; it runs at most ionic_steps iterations, makes at most
\* ionic_steps engine calls and position updates and at most ionic_steps + 1
\* force evaluations; an iteration whose forces are below
\* ionic_force_tolerance ends the run without calling the engine, an
\* iteration whose proposed step is below min_displacement ends it with a
\* warning and the positions unchanged, and a run that returns has ended for
\* one of these reasons or because the iterations are used up.
C14_RunQnTerminates ==
    /\ [](pc # "idle"
          => /\ RunRank >= 0
             /\ loc.val.iter <= RunSteps
             /\ ncalls <= RunSteps
             /\ loc.val.nmoves <= RunSteps
             /\ job.val.nruns <= RunSteps + 1)
    /\ [][pc # "idle"
          => /\ RunRank' < RunRank
             /\ (pc = "check" /\ loc.val.iter < RunSteps /\ ForcesBelowTolerance)
                => (pc' = "done" /\ ncalls' = ncalls /\ job' = job)
             /\ (pc = "propose" /\ last'.raised = None
                 /\ StepBelowMinimum(last'.ret.val))
                => (/\ pc' = "done"
                    /\ loc'.val.warnings = loc.val.warnings + 1
                    /\ job' = job)
             /\ pc' = "done"
                => \/ pc = "check" /\ loc.val.iter = RunSteps
                   \/ pc = "check" /\ ForcesBelowTolerance
                   \/ pc = "propose" /\ last'.raised = None
                      /\ StepBelowMinimum(last'.ret.val)]_vars

\* a run that has used all of its iterations, each with an engine call, a
\* position update and a force evaluation
C14_Witness ==
    /\ pc = "done" /\ loc.val.exit = "exhausted"
    /\ RunSteps = 2 /\ ncalls = 2 /\ loc.val.nmoves = 2 /\ job.val.nruns = 3

\* ------------------------------------------------------------ C15
\* the step -inv_hessian * g before any symmetry projection, for the engine
\* self once update_hessian has seen the gradient g
RawStepAfter(u, g) ==
    Reshape(VNeg(MatVec(inv_hessian(u.self, FALSE).ret, Flatten(g))), NAtoms, 3)
RawStep(self, g, mode) == RawStepAfter(update_hessian(self, g, DefaultThreshold, mode), g)

\* the step the configuration of the run asks for
ConfiguredStep(raw) ==
    IF loc.val.args.symmetrize THEN symmetrize_vectors(StructureSymmetry, raw) ELSE raw

\* C15 as claimed: in every iteration of run_qn the displacement taken from
\* the engine and added to the positions is the raw step -inv_hessian * g
\* when the run is configured with symmetrize=False, and the symmetrized
\* step when it is configured with symmetrize=True.
C15_ToggleDecidesSymmetrization ==
    /\ [][(pc = "propose" /\ last'.raised = None)
          => loc'.val.dx
             = Some(ConfiguredStep(RawStep(qn, ANeg(job.val.forces.val),
                                           loc.val.args.mode)))]_vars
    /\ [][pc = "move"
          => job'.val.positions = AAdd(job.val.positions, loc.val.dx.val)]_vars

\* ------------------------------------------------------------ C16
\* the change of the gradient, the previous displacement and H_tmp at a call
\* of get_dx with the gradient g
SecantDg(g) == Flatten(get_dg(qn, g))
SecantDx == Flatten(qn.dx.val)
SecantHTmp(g) == VSub(SecantDg(g), MatVec(qn._hessian.data, SecantDx))

\* the denominators of the rule are nonzero, and for SR no threshold moves
\* the denominator
DenominatorsNonzero(g, mode) ==
    CASE mode = "SR" -> /\ Dot(SecantHTmp(g), SecantDx) # Zero
                        /\ sr'.val.denominator = sr'.val.d
                        /\ ~RLt(RAbs(sr'.val.d), sr'.val.threshold)
      [] mode = "PSB" -> Dot(SecantDx, SecantDx) # Zero
      [] mode = "BFGS" -> /\ Dot(SecantDg(g), SecantDx) # Zero
                          /\ Dot(SecantDx, SecantHTmp(g)) # Zero

\* a call of get_dx after the first, in which the rule of the mode updates a
\* Hessian of finite entries from finite dx_prev and dg
UpdateStep ==
    /\ GetDxStep
    /\ Updates(qn, last'.args.g, DefaultThreshold, last'.args.mode)
    /\ MIsFinite(qn._hessian.data)
    /\ VIsFinite(SecantDx) /\ VIsFinite(SecantDg(last'.args.g))
    /\ DenominatorsNonzero(last'.args.g, last'.args.mode)

\* C16 as claimed: after the update of such a call the Hessian satisfies the
\* secant condition H_new * dx_prev = dg, for SR, PSB and BFGS.
C16_SecantCondition ==
    [][UpdateStep
       => MatVec(qn'._hessian.data, SecantDx) = SecantDg(last'.args.g)]_vars

\* ------------------------------------------------------------ C18
\* the latest forces are those of the current positions
ForcesCurrent == job.val.forces = Some(JobForce(job.val.positions))

\* C18: in every run of run_qn a position update is followed by the re-wrap
\* of the structure, and that by a force evaluation on the wrapped positions,
\* with no engine call in between; at every force check, at every engine
\* call and on every exit (converged, stalled, iterations used up) the latest
\* forces are those of the current positions, and there was one force
\* evaluation per position update after the initial one.
C18_ForcesFollowEveryMove ==
    /\ [][pc = "move"
          => /\ pc' = "wrap" /\ ncalls' = ncalls
             /\ job'.val.nruns = job.val.nruns]_vars
    /\ [][pc = "wrap"
          => /\ pc' = "run" /\ ncalls' = ncalls
             /\ job'.val.positions = Wrapped(job.val.positions)
             /\ job'.val.nruns = job.val.nruns]_vars
    /\ [][pc = "run"
          => /\ pc' = "check" /\ ncalls' = ncalls
             /\ job'.val.positions = job.val.positions
             /\ job'.val.forces = Some(JobForce(job.val.positions))
             /\ job'.val.nruns = job.val.nruns + 1]_vars
    /\ [][(pc # "idle" /\ ncalls' # ncalls)
          => /\ ForcesCurrent
             /\ last'.args.g = ANeg(JobForce(job.val.positions))]_vars
    /\ [](pc \in {"check", "propose", "done"}
          => /\ ForcesCurrent
             /\ job.val.nruns = loc.val.nmoves + 1)

\* a run that has returned after a position update that took the atom out of
\* the cell
C18_Witness ==
    /\ pc = "done" /\ loc.val.exit \in {"converged", "stalled", "exhausted"}
    /\ loc.val.nmoves = 1 /\ job.val.nruns = 2
    /\ \E start \in StartPositions :
          /\ Wrapped(AAdd(start, loc.val.dx.val)) # AAdd(start, loc.val.dx.val)
          /\ job.val.positions = Wrapped(AAdd(start, loc.val.dx.val))
    /\ ForcesCurrent

TypeOK == status \in {"unbuilt", "ready", "failed"}
====
